---- MODULE Spec2Model ----
(***************************************************************************)
(* A model of the schedule reduction engine of the UHasselt schedule       *)
(* optimizer (src/main.py): the group classifier (detect_group), the       *)
(* course grouper (group_events_by_course), the selector                   *)
(* (select_optimal_event) and the reduction pipeline (optimize_schedule).  *)
(*                                                                         *)
(* Text is a sequence of one-character strings, so that the regular        *)
(* expressions of the source are matched character by character.  An       *)
(* event is a record of the fields the engine reads: uid (the identity the *)
(* calendar's event set hashes on; here also the event's position in the   *)
(* source feed), name, description and begin.                              *)
(***************************************************************************)
EXTENDS Integers, Sequences, FiniteSets, TLC

VARIABLES
    config,              \* self.config of the optimizer
    calendar,            \* calendar.events of the input Calendar: a set
    cluster,             \* the list passed to a direct select_optimal_event call
    selected,            \* what that call returned
    events,              \* optimize_schedule: the filtered list (line 181)
    course_groups,       \* optimize_schedule: the ordered dict of clusters
    optimized_events,    \* optimize_schedule: the list of selections
    optimized_calendar,  \* optimize_schedule: events of the returned Calendar
    second_calendar,     \* events of optimize_schedule(optimized_calendar)
    written,             \* the order generate_optimized_ics lists the events in
    subject,             \* the event passed to a direct detect_group call
    label,               \* what that call returned
    raised,              \* the exception the last call raised, "none" if it returned
    run,                 \* run_optimization: its arguments, locals and result
    passed,              \* the arguments of the last call as they were passed
    web,                 \* the webhook API: its global optimizer and requests
    remote,              \* the Google calendar and the calls sync_schedule made
    pc                   \* which operation ran last

vars == <<config, calendar, cluster, selected, events, course_groups,
          optimized_events, optimized_calendar, second_calendar, written,
          subject, label, raised, run, passed, web, remote, pc>>

----------------------------------------------------------------------------
(* Bounds *)

\* The largest number of events in an input calendar.
MaxFeed == 3

\* The number of requests the webhook API handles, in any interleaving.
MaxRequests == 2

\* The largest number of fragments a classified event's name is made of.
MaxParts == 3

----------------------------------------------------------------------------
(* Python values *)

\* An optional string: None, or a string.
None == [some |-> FALSE, val |-> <<>>]

Some(s) == [some |-> TRUE, val |-> s]

\* `x or ''` of an optional string.
OrEmpty(d) == IF d.some /\ d.val # <<>> THEN d.val ELSE <<>>

\* The value None where an Event is expected (uid 0 is no event's uid).
NoEvent == [id |-> 0, uid |-> 0, name |-> <<>>, description |-> None,
            begin |-> [day |-> 0, slot |-> 0], end |-> [day |-> 0, slot |-> 0]]

\* The arguments of a call before any call was made.
NoPassed == [cluster |-> <<>>, calendar |-> {}]

\* The webhook API before a request, and the Google calendar before a sync.
NoWeb == [requests |-> <<>>]

NoRemote == [calls |-> <<>>]

\* The value None where an event's begin is expected, and whether an event
\* has a begin.
NoBegin == [none |-> TRUE]

HasBegin(event) == "none" \notin DOMAIN event.begin

\* dict.get(key, default) on a configuration that may lack the key.
ConfigGet(cfg, key, default) ==
    IF key \in DOMAIN cfg THEN cfg[key] ELSE default

\* Order of two begin instants (day since a Monday, slot within the day).
Before(a, b) ==
    a.day < b.day \/ (a.day = b.day /\ a.slot < b.slot)

\* datetime.weekday(): Monday is 0, Sunday is 6.
Weekday(b) == b.day % 7

----------------------------------------------------------------------------
(* Regular expressions: re.search / re.match over text *)

Lower(c) ==
    CASE c = "A" -> "a" [] c = "B" -> "b" [] c = "C" -> "c" [] c = "D" -> "d"
      [] c = "E" -> "e" [] c = "G" -> "g" [] c = "L" -> "l" [] c = "N" -> "n"
      [] c = "O" -> "o" [] c = "P" -> "p" [] c = "R" -> "r" [] c = "U" -> "u"
      [] OTHER -> c

IsSpace(c) == c \in {" ", "\t"}

IsDigit(c) == c \in {"0", "1", "2", "3", "4", "5", "6", "7", "8", "9"}

\* Pattern elements: a literal, an alternation of literals, and \s*.
Lit(s) == [t |-> "lit", alts |-> {s}]

Alt(ss) == [t |-> "lit", alts |-> ss]

WsStar == [t |-> "ws*", alts |-> {}]

\* The literal s stands in text at position i (re.IGNORECASE).
LitAt(s, text, i) ==
    /\ i + Len(s) - 1 <= Len(text)
    /\ \A j \in 1..Len(s) : Lower(text[i + j - 1]) = Lower(s[j])

\* The pattern elements from the k-th on match text starting at position i.
RECURSIVE MatchFrom(_, _, _, _)
MatchFrom(pat, k, text, i) ==
    IF k > Len(pat) THEN TRUE
    ELSE IF pat[k].t = "lit"
         THEN \E s \in pat[k].alts :
                 LitAt(s, text, i) /\ MatchFrom(pat, k + 1, text, i + Len(s))
         ELSE \/ MatchFrom(pat, k + 1, text, i)
              \/ /\ i <= Len(text)
                 /\ IsSpace(text[i])
                 /\ MatchFrom(pat, k, text, i + 1)

\* re.search(pat, text, re.IGNORECASE) finds a match.
re_search(pat, text) ==
    \E i \in 1..(Len(text) + 1) : MatchFrom(pat, 1, text, i)

----------------------------------------------------------------------------
(* Group Classifier *)

groep == <<"g", "r", "o", "e", "p">>

Group == <<"G", "r", "o", "u", "p">>

\* (groep|Group)\s*X for a letter X.
LetterRule(letter) ==
    [regex |-> <<Alt({groep, Group}), WsStar, Lit(<<letter>>)>>, assign |-> letter]

\* The rule list with its order reversed.
LoadGroupRulesFlipped ==
    <<[regex |-> <<Lit(<<"{", "N", "/", "A", "}">>)>>, assign |-> "NA"],
      [regex |-> <<Alt({<<"a", "l", "l">>, <<"a", "l", "l", "e">>})>>, assign |-> "ALL"],
      LetterRule("E"), LetterRule("D"), LetterRule("C"), LetterRule("B"),
      LetterRule("A")>>

\* The rule list taken from the configuration when it holds one.
LoadGroupRulesFromConfig ==
    IF "group_detection_rules" \in DOMAIN config THEN config.group_detection_rules
    ELSE [k \in 1..7 |-> LoadGroupRulesFlipped[8 - k]]

\* _load_group_rules: the ordered rule list.
load_group_rules ==
    <<LetterRule("A"), LetterRule("B"), LetterRule("C"), LetterRule("D"),
      LetterRule("E"),
      [regex |-> <<Alt({<<"a", "l", "l">>, <<"a", "l", "l", "e">>})>>, assign |-> "ALL"],
      [regex |-> <<Lit(<<"{", "N", "/", "A", "}">>)>>, assign |-> "NA"]>>

\* f"{event.name} {event.description or ''}"
TextToAnalyze(event) == event.name \o <<" ">> \o OrEmpty(event.description)

\* The loop of detect_group from the k-th rule on.
RECURSIVE DetectFrom(_, _, _)
DetectFrom(rules, k, text) ==
    IF k > Len(rules) THEN "UNKNOWN"
    ELSE IF re_search(rules[k].regex, text) THEN rules[k].assign
         ELSE DetectFrom(rules, k + 1, text)

detect_group(event) == DetectFrom(load_group_rules, 1, TextToAnalyze(event))

----------------------------------------------------------------------------
(* The group extraction of the Google Calendar integration *)

\* [A-E] under re.IGNORECASE.
IsGroupLetter(c) == Lower(c) \in {"a", "b", "c", "d", "e"}

\* The first position from j on that holds no whitespace.
RECURSIVE SkipSpaces(_, _)
SkipSpaces(text, j) ==
    IF j <= Len(text) /\ IsSpace(text[j]) THEN SkipSpaces(text, j + 1) ELSE j

\* word\s*([A-E]) matches at position i; the position of the captured letter.
ForwardLetterAt(word, text, i) == SkipSpaces(text, i + Len(word))

ForwardAt(word, text, i) ==
    /\ LitAt(word, text, i)
    /\ ForwardLetterAt(word, text, i) <= Len(text)
    /\ IsGroupLetter(text[ForwardLetterAt(word, text, i)])

\* ([A-E])\s*word matches at position i, where the captured letter stands.
ReverseAt(word, text, i) ==
    /\ i <= Len(text)
    /\ IsGroupLetter(text[i])
    /\ LitAt(word, text, SkipSpaces(text, i + 1))

\* group_patterns, in order: the word and whether the letter comes first.
group_patterns ==
    <<[word |-> <<"g", "r", "o", "e", "p">>, reverse |-> FALSE],
      [word |-> <<"g", "r", "o", "u", "p">>, reverse |-> FALSE],
      [word |-> <<"g", "r", "o", "e", "p">>, reverse |-> TRUE],
      [word |-> <<"g", "r", "o", "u", "p">>, reverse |-> TRUE]>>

\* The positions at which a pattern matches, and match.group(1) of the
\* leftmost match.
PatternMatches(pattern, text) ==
    {i \in 1..Len(text) :
        IF pattern.reverse THEN ReverseAt(pattern.word, text, i)
        ELSE ForwardAt(pattern.word, text, i)}

PatternGroup1(pattern, text) ==
    LET at == CHOOSE i \in PatternMatches(pattern, text) :
                  \A j \in PatternMatches(pattern, text) : i <= j
    IN  IF pattern.reverse THEN <<text[at]>>
        ELSE <<text[ForwardLetterAt(pattern.word, text, at)]>>

\* The loop of _extract_group_from_event from the k-th pattern on.
RECURSIVE ExtractFrom(_, _)
ExtractFrom(k, text) ==
    IF k > Len(group_patterns) THEN None
    ELSE IF PatternMatches(group_patterns[k], text) # {}
         THEN Some(PatternGroup1(group_patterns[k], text))
         ELSE ExtractFrom(k + 1, text)

extract_group_from_event(event) == ExtractFrom(1, TextToAnalyze(event))

----------------------------------------------------------------------------
(* Course Grouper *)

\* The number of leading decimal digits of text from position i on.
RECURSIVE DigitRun(_, _)
DigitRun(text, i) ==
    IF i <= Len(text) /\ IsDigit(text[i]) THEN 1 + DigitRun(text, i + 1) ELSE 0

\* re.match(r'^(\d+)\s*-\s*', name): group(1), or None. With m leading digits,
\* the greedy \d+ takes n <= m of them and backtracks from m downwards.
CourseMatch(name) ==
    LET m == DigitRun(name, 1)
        ok(n) == MatchFrom(<<WsStar, Lit(<<"-">>), WsStar>>, 1, name, n + 1)
        good == {n \in 1..m : ok(n)}
    IN  IF good = {} THEN None
        ELSE Some(SubSeq(name, 1, CHOOSE n \in good : \A n2 \in good : n2 <= n))

UNKNOWN_CODE == <<"U", "N", "K", "N", "O", "W", "N">>

\* The first position from i on that holds no "0", or the last position.
RECURSIVE SkipZeros(_, _)
SkipZeros(code, i) ==
    IF i < Len(code) /\ code[i] = "0" THEN SkipZeros(code, i + 1) ELSE i

\* A course code that is the numeric value of the digit run.
CourseCodeStripsZeros(event) ==
    LET course_match == CourseMatch(event.name)
    IN  IF course_match.some
        THEN SubSeq(course_match.val, SkipZeros(course_match.val, 1),
                    Len(course_match.val))
        ELSE UNKNOWN_CODE

\* A course code that is the title itself when the title has no code.
CourseCodeOwnKey(event) ==
    LET course_match == CourseMatch(event.name)
    IN  IF course_match.some THEN course_match.val ELSE event.name

\* The course code group_events_by_course files an event under.
CourseCode(event) ==
    LET course_match == CourseMatch(event.name)
    IN  IF course_match.some THEN course_match.val ELSE UNKNOWN_CODE

----------------------------------------------------------------------------
(* The events of the source feed; uid is the position in the feed *)

Ev(uid, name, description, day, slot) ==
    [id |-> uid, uid |-> uid, name |-> name, description |-> description,
     begin |-> [day |-> day, slot |-> slot],
     end |-> [day |-> day, slot |-> slot + 1]]

Catalog ==
    << \* "54 - x A" / "groep A, {N/A}", Wednesday first slot
       Ev(1, <<"5", "4", " ", "-", " ", "x", " ", "A">>,
          Some(<<"g", "r", "o", "e", "p", " ", "A", ",", " ", "{", "N", "/", "A", "}">>),
          2, 0),
       \* "54 - x B" / "Groep  B, {N/A}", Wednesday second slot
       Ev(2, <<"5", "4", " ", "-", " ", "x", " ", "B">>,
          Some(<<"G", "r", "o", "e", "p", " ", " ", "B", ",", " ", "{", "N", "/", "A", "}">>),
          2, 1),
       \* "54- y" / "all, {N/A}", Thursday
       Ev(3, <<"5", "4", "-", " ", "y">>,
          Some(<<"a", "l", "l", ",", " ", "{", "N", "/", "A", "}">>),
          3, 0),
       \* "54 -z" / "groep B groep A", Saturday
       Ev(4, <<"5", "4", " ", "-", "z">>,
          Some(<<"g", "r", "o", "e", "p", " ", "B", " ", "g", "r", "o", "e", "p", " ", "A">>),
          5, 0),
       \* "054 - x" / "{N/A}", Wednesday first slot
       Ev(5, <<"0", "5", "4", " ", "-", " ", "x">>,
          Some(<<"{", "N", "/", "A", "}">>),
          2, 0),
       \* "hall" / no description, Tuesday
       Ev(6, <<"h", "a", "l", "l">>, None, 1, 0),
       \* "7 x" / "A groep", Sunday
       Ev(7, <<"7", " ", "x">>,
          Some(<<"A", " ", "g", "r", "o", "e", "p">>),
          6, 1),
       \* "54 - w" / "{n/a} GROUP A", Wednesday first slot
       Ev(8, <<"5", "4", " ", "-", " ", "w">>,
          Some(<<"{", "n", "/", "a", "}", " ", "G", "R", "O", "U", "P", " ", "A">>),
          2, 0) >>

CatalogSet == {Catalog[i] : i \in 1..Len(Catalog)}

\* Events a feed may hold whose temporal fields are not in order: two without
\* a begin, and one that ends before it begins.
MalformedCatalog ==
    << \* "54 - m" / "groep A", no begin
       [id |-> 9, uid |-> 9,
        name |-> <<"5", "4", " ", "-", " ", "m">>,
        description |-> Some(<<"g", "r", "o", "e", "p", " ", "A">>),
        begin |-> NoBegin, end |-> NoBegin],
       \* "77 - n" / "groep A", Wednesday third slot to Wednesday first slot
       [id |-> 10, uid |-> 10,
        name |-> <<"7", "7", " ", "-", " ", "n">>,
        description |-> Some(<<"g", "r", "o", "e", "p", " ", "A">>),
        begin |-> [day |-> 2, slot |-> 2], end |-> [day |-> 2, slot |-> 0]],
       \* "77 - q" / no description, no begin
       [id |-> 11, uid |-> 11,
        name |-> <<"7", "7", " ", "-", " ", "q">>,
        description |-> None,
        begin |-> NoBegin, end |-> NoBegin] >>

MalformedSet == {MalformedCatalog[i] : i \in 1..Len(MalformedCatalog)}

\* detect_group and the course code of every event of the feed, computed once
\* (both are pure functions of the event's text).
GroupTable == [e \in CatalogSet \cup MalformedSet |-> detect_group(e)]

CodeTable == [e \in CatalogSet \cup MalformedSet |-> CourseCode(e)]

GroupOf(e) == GroupTable[e]

CodeOf(e) == CodeTable[e]

\* An empty ordered dict, and the dict after one more event of the loop.
EmptyGroups == [keys |-> <<>>, groups |-> <<>>]

\* A loop step that files a new course code in front of the known ones.
AddToGroupsInFront(cg, event) ==
    LET course_code == CodeOf(event)
        known == \E i \in 1..Len(cg.keys) : cg.keys[i] = course_code
    IN  IF known
        THEN [keys |-> cg.keys,
              groups |-> [i \in 1..Len(cg.keys) |->
                            IF cg.keys[i] = course_code
                            THEN Append(cg.groups[i], event)
                            ELSE cg.groups[i]]]
        ELSE [keys |-> <<course_code>> \o cg.keys,
              groups |-> <<<<event>>>> \o cg.groups]

AddToGroups(cg, event) ==
    LET course_code == CodeOf(event)
        known == \E i \in 1..Len(cg.keys) : cg.keys[i] = course_code
    IN  IF known
        THEN [keys |-> cg.keys,
              groups |-> [i \in 1..Len(cg.keys) |->
                            IF cg.keys[i] = course_code
                            THEN Append(cg.groups[i], event)
                            ELSE cg.groups[i]]]
        ELSE [keys |-> Append(cg.keys, course_code),
              groups |-> Append(cg.groups, <<event>>)]

\* group_events_by_course over the first n events of the list.
RECURSIVE GroupUpTo(_, _)
GroupUpTo(evs, n) ==
    IF n = 0 THEN EmptyGroups ELSE AddToGroups(GroupUpTo(evs, n - 1), evs[n])

group_events_by_course(evs) == GroupUpTo(evs, Len(evs))

----------------------------------------------------------------------------
(* Selector *)

\* min(seq, key=lambda e: e.begin): the first element of least begin.
RECURSIVE MinByBegin(_, _)
MinByBegin(seq, n) ==
    IF n = 1 THEN seq[1]
    ELSE LET best == MinByBegin(seq, n - 1)
         IN  IF Before(seq[n].begin, best.begin) THEN seq[n] ELSE best

\* A max that keeps the last element of greatest begin.
RECURSIVE MaxByBeginLast(_, _)
MaxByBeginLast(seq, n) ==
    IF n = 1 THEN seq[1]
    ELSE LET best == MaxByBeginLast(seq, n - 1)
         IN  IF ~Before(seq[n].begin, best.begin) THEN seq[n] ELSE best

\* max(seq, key=lambda e: e.begin): the first element of greatest begin.
RECURSIVE MaxByBegin(_, _)
MaxByBegin(seq, n) ==
    IF n = 1 THEN seq[1]
    ELSE LET best == MaxByBegin(seq, n - 1)
         IN  IF Before(best.begin, seq[n].begin) THEN seq[n] ELSE best

\* events_to_choose_from, were the preferred group never looked at.
CandidateSetIgnoresPreference(evs, cfg) == evs

\* events_to_choose_from, were the ALL sub-step of the fallback left out.
CandidateSetSkipsAll(evs, cfg) ==
    LET preferred_group == ConfigGet(cfg, "preferred_group", "A")
        IsPreferred(e) == GroupOf(e) = preferred_group
        preferred_events == SelectSeq(evs, IsPreferred)
    IN  IF preferred_events # <<>> THEN preferred_events ELSE evs

\* events_to_choose_from, were the last fallback the first event alone.
CandidateSetFirstOnly(evs, cfg) ==
    LET preferred_group == ConfigGet(cfg, "preferred_group", "A")
        IsPreferred(e) == GroupOf(e) = preferred_group
        IsAll(e) == GroupOf(e) = "ALL"
        preferred_events == SelectSeq(evs, IsPreferred)
        all_events == SelectSeq(evs, IsAll)
    IN  IF preferred_events # <<>> THEN preferred_events
        ELSE IF ConfigGet(cfg, "fallback_group_behavior", "None") = "use_all_if_missing"
             THEN IF all_events # <<>> THEN all_events ELSE <<evs[1]>>
             ELSE evs

\* events_to_choose_from, were the ALL sub-step taken under every fallback.
CandidateSetAllAlways(evs, cfg) ==
    LET preferred_group == ConfigGet(cfg, "preferred_group", "A")
        IsPreferred(e) == GroupOf(e) = preferred_group
        IsAll(e) == GroupOf(e) = "ALL"
        preferred_events == SelectSeq(evs, IsPreferred)
        all_events == SelectSeq(evs, IsAll)
    IN  IF preferred_events # <<>> THEN preferred_events
        ELSE IF all_events # <<>> THEN all_events ELSE evs

\* events_to_choose_from of select_optimal_event.
CandidateSet(evs, cfg) ==
    LET preferred_group == ConfigGet(cfg, "preferred_group", "A")
        IsPreferred(e) == GroupOf(e) = preferred_group
        IsAll(e) == GroupOf(e) = "ALL"
        preferred_events == SelectSeq(evs, IsPreferred)
        all_events == SelectSeq(evs, IsAll)
    IN  IF preferred_events # <<>> THEN preferred_events
        ELSE IF ConfigGet(cfg, "fallback_group_behavior", "None") = "use_all_if_missing"
             THEN IF all_events # <<>> THEN all_events ELSE evs
             ELSE evs

\* The optimization-mode step of select_optimal_event.
ApplyMode(candidates, cfg) ==
    LET optimization_mode == ConfigGet(cfg, "optimization_mode", "earliest_lesson")
    IN  IF optimization_mode = "earliest_lesson"
        THEN MinByBegin(candidates, Len(candidates))
        ELSE IF optimization_mode = "latest_lesson"
             THEN MaxByBegin(candidates, Len(candidates))
             ELSE candidates[1]

\* A selector that returns None for a cluster without a preferred member.
select_preferred_or_none(evs, cfg) ==
    LET preferred_group == ConfigGet(cfg, "preferred_group", "A")
        IsPreferred(e) == GroupOf(e) = preferred_group
        preferred_events == SelectSeq(evs, IsPreferred)
    IN  IF preferred_events = <<>> THEN NoEvent
        ELSE ApplyMode(preferred_events, cfg)

\* A selector whose emptiness test is off by one.
select_skips_single(evs, cfg) ==
    IF Len(evs) <= 1 THEN NoEvent
    ELSE LET events_to_choose_from == CandidateSet(evs, cfg)
         IN  IF events_to_choose_from = <<>> THEN evs[1]
             ELSE ApplyMode(events_to_choose_from, cfg)

\* A selector that returns a new object with the fields of its choice.
select_returns_copy(evs, cfg) ==
    IF evs = <<>> THEN NoEvent
    ELSE LET events_to_choose_from == CandidateSet(evs, cfg)
             chosen == IF events_to_choose_from = <<>> THEN evs[1]
                       ELSE ApplyMode(events_to_choose_from, cfg)
         IN  [chosen EXCEPT !.id = @ + 100]

select_optimal_event(evs, cfg) ==
    IF evs = <<>> THEN NoEvent
    ELSE LET events_to_choose_from == CandidateSet(evs, cfg)
         IN  IF events_to_choose_from = <<>> THEN evs[1]
             ELSE ApplyMode(events_to_choose_from, cfg)

----------------------------------------------------------------------------
(* Reduction Pipeline *)

\* A weekend test that lets Saturday through.
should_skip_sunday_only(event, cfg) ==
    IF ~ConfigGet(cfg, "skip_weekends", TRUE) THEN FALSE
    ELSE Weekday(event.begin) > 5

should_skip_weekend(event, cfg) ==
    IF ~ConfigGet(cfg, "skip_weekends", TRUE) THEN FALSE
    ELSE Weekday(event.begin) >= 5

\* set.add on a set of events, which hashes and compares events by uid.
SetAdd(S, e) == IF \E x \in S : x.uid = e.uid THEN S ELSE S \cup {e}

RECURSIVE SetOfSeq(_, _)
SetOfSeq(seq, n) ==
    IF n = 0 THEN {} ELSE SetAdd(SetOfSeq(seq, n - 1), seq[n])

\* The selection loop of optimize_schedule over the first n clusters.
RECURSIVE SelectUpTo(_, _, _)
SelectUpTo(cg, n, cfg) ==
    IF n = 0 THEN <<>>
    ELSE LET optimal_event == select_optimal_event(cg.groups[n], cfg)
             sofar == SelectUpTo(cg, n - 1, cfg)
         IN  IF optimal_event # NoEvent THEN Append(sofar, optimal_event)
             ELSE sofar

\* optimize_schedule on a calendar whose event set iterates in the given order.
optimize_schedule(order, cfg) ==
    LET Kept(e) == ~should_skip_weekend(e, cfg)
        evs == SelectSeq(order, Kept)
        cg == group_events_by_course(evs)
        opt == SelectUpTo(cg, Len(cg.keys), cfg)
    IN  [events |-> evs, course_groups |-> cg, optimized_events |-> opt,
         calendar |-> SetOfSeq(opt, Len(opt))]

----------------------------------------------------------------------------
(* Exceptions: what the engine raises instead of returning *)

\* should_skip_weekend raises: event.begin.weekday() on a begin of None.
weekend_check_raises(event, cfg) ==
    ConfigGet(cfg, "skip_weekends", TRUE) /\ ~HasBegin(event)

\* The loop body of group_events_by_course raises: it never does, the match
\* object is only read under `if course_match`.
\* A grouping step that rejects a title without a course code.
grouping_raises_unmatched(event) == ~CourseMatch(event.name).some

grouping_raises(event) == FALSE

\* min / max raise: they compare the begin of every candidate with another's,
\* and None is not ordered.
tie_break_raises(candidates, cfg) ==
    /\ ConfigGet(cfg, "optimization_mode", "earliest_lesson")
          \in {"earliest_lesson", "latest_lesson"}
    /\ Len(candidates) >= 2
    /\ \E i \in 1..Len(candidates) : ~HasBegin(candidates[i])

\* The exception select_optimal_event raises, "none" if it returns.
\* A selector that raises on the empty list.
select_raised_on_empty(evs, cfg) ==
    IF evs = <<>> THEN "EmptyClusterError"
    ELSE IF tie_break_raises(CandidateSet(evs, cfg), cfg) THEN "TypeError"
    ELSE "none"

select_raised(evs, cfg) ==
    IF evs # <<>> /\ tie_break_raises(CandidateSet(evs, cfg), cfg)
    THEN "TypeError"
    ELSE "none"

\* The exception optimize_schedule raises, "none" if it returns.
optimize_raised(order, cfg) ==
    IF \E i \in 1..Len(order) : weekend_check_raises(order[i], cfg)
    THEN "AttributeError"
    ELSE LET Kept(e) == ~should_skip_weekend(e, cfg)
             evs == SelectSeq(order, Kept)
         IN  IF \E i \in 1..Len(evs) : grouping_raises(evs[i])
             THEN "AttributeError"
             ELSE LET cg == group_events_by_course(evs)
                  IN  IF \E k \in 1..Len(cg.keys) :
                            select_raised(cg.groups[k], cfg) # "none"
                      THEN "TypeError"
                      ELSE "none"

----------------------------------------------------------------------------
(* Policies and iteration orders *)

\* The policies: every combination of the recognised options, and a
\* configuration file that sets none of them.
\* The names bound in the namespace of the module main: its imports
\* (lines 11-26), its class and its function.
ModuleNames ==
    {"argparse", "json", "logging", "re", "sys", "datetime", "timedelta", "Path",
     "Dict", "List", "Optional", "Tuple", "Union", "urlparse", "pytz",
     "requests", "Calendar", "Event", "ICalendar", "GoogleCalendarIntegration",
     "UHasseltScheduleOptimizer", "main"}

\* Evaluating a global name that the module does not bind raises NameError.
NameDefined(name) == name \in ModuleNames

\* run_optimization before it is called.
NoRun ==
    [sync_to_google |-> FALSE, output_file |-> None, google_url |-> None,
     sync_calls |-> <<>>, sync_error |-> "none", result |-> None]

Configs ==
    [preferred_group : {"A", "B"},
     fallback_group_behavior : {"use_all_if_missing", "use_any_if_missing"},
     optimization_mode : {"earliest_lesson", "latest_lesson", "first_seen"},
     skip_weekends : BOOLEAN]
    \cup {[timezone |-> "Europe/Brussels"]}

\* The orders in which a set of events can iterate.
Orders(S) ==
    {f \in [1..Cardinality(S) -> S] : \A i, j \in 1..Cardinality(S) : f[i] = f[j] => i = j}

----------------------------------------------------------------------------
(* The state machine *)

Init ==
    /\ config \in Configs
    /\ calendar \in {S \in SUBSET CatalogSet : Cardinality(S) <= MaxFeed}
    /\ cluster = <<>>
    /\ selected = NoEvent
    /\ events = <<>>
    /\ course_groups = EmptyGroups
    /\ optimized_events = <<>>
    /\ optimized_calendar = {}
    /\ second_calendar = {}
    /\ written = <<>>
    /\ subject = NoEvent
    /\ label = ""
    /\ raised = "none"
    /\ run = NoRun
    /\ passed = NoPassed
    /\ web = NoWeb
    /\ remote = NoRemote
    /\ pc = "start"

\* A direct call select_optimal_event(events, course_code).
SelectOptimalEvent ==
    /\ pc = "start"
    /\ \E order \in Orders(calendar) :
          /\ passed' = [passed EXCEPT !.cluster = order]
          /\ cluster' = order
          /\ raised' = select_raised(order, config)
          /\ IF select_raised(order, config) = "none"
             THEN selected' = select_optimal_event(order, config) /\ pc' = "selected"
             ELSE selected' = selected /\ pc' = "failed"
    /\ UNCHANGED <<config, calendar, events, course_groups, optimized_events,
                   optimized_calendar, second_calendar, written, subject, label,
                   run,
                   web, remote>>

\* optimize_schedule(calendar).
OptimizeSchedule ==
    /\ pc = "start"
    /\ \E order \in Orders(calendar) :
          /\ passed' = [passed EXCEPT !.calendar = calendar]
          /\ raised' = optimize_raised(order, config)
          /\ IF optimize_raised(order, config) = "none"
             THEN LET r == optimize_schedule(order, config)
                  IN  /\ events' = r.events
                      /\ course_groups' = r.course_groups
                      /\ optimized_events' = r.optimized_events
                      /\ optimized_calendar' = r.calendar
                      /\ pc' = "optimized"
             ELSE /\ UNCHANGED <<events, course_groups, optimized_events,
                                 optimized_calendar>>
                  /\ pc' = "failed"
    /\ UNCHANGED <<config, calendar, cluster, selected, second_calendar, written,
                   subject, label, run,
                   web, remote>>

\* optimize_schedule applied to the calendar it returned.
OptimizeAgain ==
    /\ pc = "optimized"
    /\ \E order \in Orders(optimized_calendar) :
          second_calendar' = optimize_schedule(order, config).calendar
    /\ pc' = "reoptimized"
    /\ UNCHANGED <<config, calendar, cluster, selected, events, course_groups,
                   optimized_events, optimized_calendar, written, subject, label,
                   raised, run,
                   passed, web, remote>>

\* generate_optimized_ics: str(calendar) lists the events as the set iterates.
GenerateOptimizedIcs ==
    /\ pc = "optimized"
    /\ \E order \in Orders(optimized_calendar) : written' = order
    /\ pc' = "written"
    /\ UNCHANGED <<config, calendar, cluster, selected, events, course_groups,
                   optimized_events, optimized_calendar, second_calendar,
                   subject, label, raised, run,
                   passed, web, remote>>

Next ==
    \/ SelectOptimalEvent
    \/ OptimizeSchedule
    \/ OptimizeAgain
    \/ GenerateOptimizedIcs

Spec == Init /\ [][Next]_vars

----------------------------------------------------------------------------
(* run_optimization(ics_url, output_path, sync_to_google, calendar_name), step
   by step; calendar is what the feed at ics_url holds *)

OutputFile == <<"o", "u", "t", "p", "u", "t", "/", "o", ".", "i", "c", "s">>

\* What GoogleCalendarIntegration.sync_schedule may return: None, or the URL.
SyncOutcomes == {None, Some(<<"u", "r", "l">>)}

InitRun ==
    /\ config \in Configs
    /\ calendar \in {S \in SUBSET CatalogSet : Cardinality(S) <= MaxFeed}
    /\ cluster = <<>>
    /\ selected = NoEvent
    /\ events = <<>>
    /\ course_groups = EmptyGroups
    /\ optimized_events = <<>>
    /\ optimized_calendar = {}
    /\ second_calendar = {}
    /\ written = <<>>
    /\ subject = NoEvent
    /\ label = ""
    /\ raised = "none"
    /\ run \in {[NoRun EXCEPT !.sync_to_google = b] : b \in BOOLEAN}
    /\ passed = NoPassed
    /\ web = NoWeb
    /\ remote = NoRemote
    /\ pc = "run_start"

\* download_ics and parse_ics: a failed download is raised again.
RunDownload ==
    /\ pc = "run_start"
    /\ \E ok \in BOOLEAN :
          IF ok THEN raised' = raised /\ pc' = "run_parsed"
          ELSE raised' = "RequestException" /\ pc' = "failed"
    /\ UNCHANGED <<config, calendar, cluster, selected, events, course_groups,
                   optimized_events, optimized_calendar, second_calendar, written,
                   subject, label, run,
                   passed, web, remote>>

\* optimized_calendar = self.optimize_schedule(calendar)
RunOptimize ==
    /\ pc = "run_parsed"
    /\ \E order \in Orders(calendar) :
          /\ passed' = [passed EXCEPT !.calendar = calendar]
          /\ raised' = optimize_raised(order, config)
          /\ IF optimize_raised(order, config) = "none"
             THEN LET r == optimize_schedule(order, config)
                  IN  /\ events' = r.events
                      /\ course_groups' = r.course_groups
                      /\ optimized_events' = r.optimized_events
                      /\ optimized_calendar' = r.calendar
                      /\ pc' = "run_optimized"
             ELSE /\ UNCHANGED <<events, course_groups, optimized_events,
                                 optimized_calendar>>
                  /\ pc' = "failed"
    /\ UNCHANGED <<config, calendar, cluster, selected, second_calendar, written,
                   subject, label, run,
                   web, remote>>

\* output_file = self.generate_optimized_ics(optimized_calendar, output_path):
\* a failed write is raised again.
RunGenerate ==
    /\ pc = "run_optimized"
    /\ \E ok \in BOOLEAN :
          IF ok
          THEN /\ \E order \in Orders(optimized_calendar) : written' = order
               /\ run' = [run EXCEPT !.output_file = Some(OutputFile)]
               /\ raised' = raised
               /\ pc' = "run_generated"
          ELSE /\ UNCHANGED <<written, run>>
               /\ raised' = "OSError"
               /\ pc' = "failed"
    /\ UNCHANGED <<config, calendar, cluster, selected, events, course_groups,
                   optimized_events, optimized_calendar, second_calendar,
                   subject, label,
                   passed, web, remote>>

\* The exception the try block of lines 235-243 raises before or at its call
\* of sync_schedule: os.environ is evaluated at line 238, before the call, and
\* sync_schedule itself catches what its steps raise.
sync_block_raises == IF NameDefined("os") THEN "none" ELSE "NameError"

\* The classes derived from Exception among the exceptions of the model.
ExceptionClasses ==
    {"NameError", "TypeError", "AttributeError", "HttpError", "OSError",
     "RequestException", "JSONDecodeError"}

\* A handler that catches the errors of the Google API only.
sync_except_catches_http_only(error) == error = "HttpError"

\* except Exception as e (line 244)
sync_except_catches(error) == error \in ExceptionClasses

\* Lines 232-245: google_url = None, and under sync_to_google the try block,
\* whose exceptions are logged and dropped; one that the handler does not
\* catch reaches the outer handler (lines 253-255), which raises it again.
RunSync ==
    /\ pc = "run_generated"
    /\ IF ~run.sync_to_google
       THEN run' = run /\ raised' = raised /\ pc' = "run_synced"
       ELSE IF sync_block_raises # "none"
            THEN IF sync_except_catches(sync_block_raises)
                 THEN /\ run' = [run EXCEPT !.sync_error = sync_block_raises]
                      /\ raised' = raised
                      /\ pc' = "run_synced"
                 ELSE /\ run' = run
                      /\ raised' = sync_block_raises
                      /\ pc' = "failed"
            ELSE /\ \E url \in SyncOutcomes :
                       run' = [run EXCEPT
                                  !.sync_calls = Append(@, optimized_calendar),
                                  !.google_url = url]
                 /\ raised' = raised
                 /\ pc' = "run_synced"
    /\ UNCHANGED <<config, calendar, cluster, selected, events, course_groups,
                   optimized_events, optimized_calendar, second_calendar, written,
                   subject, label, passed, web, remote>>

\* Lines 247-251: the returned dict.
RunReturn ==
    /\ pc = "run_synced"
    /\ run' = [run EXCEPT !.result =
                  [some |-> TRUE,
                   val |-> [output_file |-> run.output_file,
                            google_calendar_url |-> run.google_url]]]
    /\ pc' = "run_returned"
    /\ UNCHANGED <<config, calendar, cluster, selected, events, course_groups,
                   optimized_events, optimized_calendar, second_calendar, written,
                   subject, label, raised,
                   passed, web, remote>>

NextRun ==
    \/ RunDownload
    \/ RunOptimize
    \/ RunGenerate
    \/ RunSync
    \/ RunReturn

SpecRun == InitRun /\ [][NextRun]_vars

----------------------------------------------------------------------------
(* The webhook API: POST /optimize and POST /google-calendar/sync requests,
   each handled by its own thread, and POST /config updates of the global
   optimizer, in any interleaving. The file config.json is shared: /config
   writes it and every UHasseltScheduleOptimizer() reads it. *)

\* The default configuration of _load_config.
DefaultConfig ==
    [preferred_group |-> "A", fallback_group_behavior |-> "use_all_if_missing",
     optimization_mode |-> "earliest_lesson", minimum_break_minutes |-> 1,
     skip_weekends |-> TRUE, timezone |-> "Europe/Brussels"]

\* config.json: absent, holding a JSON object, or opened for writing and not
\* yet written out.
NoFile == [state |-> "absent", content |-> DefaultConfig]

FileOf(content) == [state |-> "valid", content |-> content]

FileBeingWritten == [state |-> "writing", content |-> DefaultConfig]

\* _load_config: the JSON of the file as it is, the default configuration
\* when there is no file.
load_config(file) ==
    IF file.state = "valid" THEN file.content ELSE DefaultConfig

\* json.load of a file that is being written raises JSONDecodeError, which
\* _load_config does not catch.
load_config_raises(file) == file.state = "writing"

\* dict.update
DictUpdate(cfg, data) ==
    [key \in DOMAIN cfg \cup DOMAIN data |->
        IF key \in DOMAIN data THEN data[key] ELSE cfg[key]]

\* The temporary config a request handler builds from the request's body.
BodyConfig(body) ==
    [preferred_group |-> ConfigGet(body, "preferred_group", "A"),
     fallback_group_behavior |-> "use_all_if_missing",
     optimization_mode |-> ConfigGet(body, "optimization_mode", "earliest_lesson"),
     minimum_break_minutes |-> 1,
     skip_weekends |-> TRUE, timezone |-> "Europe/Brussels"]

\* A temporary optimizer that keeps the configuration its constructor loaded.
TempConfigKeepsLoaded(body, loaded) == loaded

\* temp_optimizer = UHasseltScheduleOptimizer(); temp_optimizer.config = config
TempConfig(body, loaded) == BodyConfig(body)

\* A request whose optimizer is the global one.
OptimizerConfigGlobal(w, r) == w.global_config

\* self.config as the optimizer of request r reads it.
OptimizerConfig(w, r) == w.requests[r].config

\* What a reduction reads of its configuration.
Policy(cfg) ==
    [preferred_group |-> ConfigGet(cfg, "preferred_group", "A"),
     fallback_group_behavior |-> ConfigGet(cfg, "fallback_group_behavior", "None"),
     optimization_mode |-> ConfigGet(cfg, "optimization_mode", "earliest_lesson"),
     skip_weekends |-> ConfigGet(cfg, "skip_weekends", TRUE)]

\* Request bodies, apart from ics_url: none of the optional keys, or both.
Bodies ==
    {[endpoint |-> endpoint] : endpoint \in {"/optimize", "/google-calendar/sync"}}
    \cup {[endpoint |-> "/optimize", preferred_group |-> "B",
            optimization_mode |-> "latest_lesson"]}

\* Bodies of POST /config.
UpdateData ==
    {[preferred_group |-> "B", optimization_mode |-> "latest_lesson",
      fallback_group_behavior |-> "use_any_if_missing", skip_weekends |-> FALSE],
     [preferred_group |-> "A"]}

\* The feeds behind ics_url, as the parsed calendar iterates.
WebFeeds ==
    {<<Catalog[5], Catalog[2], Catalog[1]>>,
     <<Catalog[2], Catalog[4]>>}

IdleRequest ==
    [step |-> "idle", body |-> [endpoint |-> "none"], config |-> DefaultConfig,
     events |-> <<>>, course_groups |-> EmptyGroups, optimized_events |-> <<>>,
     seen |-> <<>>, updated |-> FALSE, result |-> {}, error |-> "none"]

InitWeb ==
    /\ config = DefaultConfig
    /\ calendar = {}
    /\ cluster = <<>>
    /\ selected = NoEvent
    /\ events = <<>>
    /\ course_groups = EmptyGroups
    /\ optimized_events = <<>>
    /\ optimized_calendar = {}
    /\ second_calendar = {}
    /\ written = <<>>
    /\ subject = NoEvent
    /\ label = ""
    /\ raised = "none"
    /\ run = NoRun
    /\ passed = NoPassed
    /\ \E feed \in WebFeeds :
          web = [feed |-> feed, file |-> NoFile, updates |-> 0,
                 global_config |-> load_config(NoFile),
                 requests |-> [r \in 1..MaxRequests |-> IdleRequest]]
    /\ remote = NoRemote
    /\ pc = "serving"

WebUnchanged ==
    UNCHANGED <<config, calendar, cluster, selected, events, course_groups,
                optimized_events, optimized_calendar, second_calendar, written,
                subject, label, raised, run, passed, remote, pc>>

\* A handler up to its call of optimize_schedule, and that call's filter and
\* grouping (main.py:181-184): the temporary optimizer is constructed, which
\* reads config.json, its config is replaced, the feed is downloaded and
\* parsed.
WebBegin(r) ==
    /\ web.requests[r].step = "idle"
    /\ \E body \in Bodies :
          IF load_config_raises(web.file)
          THEN web' = [web EXCEPT !.requests[r] =
                          [@ EXCEPT !.step = "failed", !.body = body,
                                    !.updated = web.updates > 0,
                                    !.error = "JSONDecodeError"]]
          ELSE LET made == [web EXCEPT !.requests[r] =
                               [@ EXCEPT !.body = body,
                                         !.updated = web.updates > 0,
                                         !.config = TempConfig(body, load_config(web.file))]]
                   cfg == OptimizerConfig(made, r)
                   Kept(e) == ~should_skip_weekend(e, cfg)
                   evs == SelectSeq(web.feed, Kept)
               IN  web' = [made EXCEPT !.requests[r] =
                              [@ EXCEPT !.step = "reducing",
                                        !.seen = <<Policy(cfg)>>,
                                        !.events = evs,
                                        !.course_groups = group_events_by_course(evs)]]
    /\ WebUnchanged

\* One round of the loop of optimize_schedule (main.py:188-192).
WebSelect(r) ==
    /\ web.requests[r].step = "reducing"
    /\ Len(web.requests[r].seen) <= Len(web.requests[r].course_groups.keys)
    /\ LET k == Len(web.requests[r].seen)
           cfg == OptimizerConfig(web, r)
           optimal_event == select_optimal_event(web.requests[r].course_groups.groups[k], cfg)
       IN  web' = [web EXCEPT !.requests[r] =
                      [@ EXCEPT !.seen = Append(@, Policy(cfg)),
                                !.optimized_events = Append(@, optimal_event)]]
    /\ WebUnchanged

\* The end of optimize_schedule (main.py:194-200) and the response.
WebRespond(r) ==
    /\ web.requests[r].step = "reducing"
    /\ Len(web.requests[r].seen) > Len(web.requests[r].course_groups.keys)
    /\ web' = [web EXCEPT !.requests[r] =
                  [@ EXCEPT !.step = "responded",
                            !.result = SetOfSeq(web.requests[r].optimized_events,
                                                 Len(web.requests[r].optimized_events))]]
    /\ WebUnchanged

\* POST /config up to open('config.json', 'w'): the global optimizer's config
\* is updated and the file truncated.
WebUpdateBegin ==
    /\ web.file.state # "writing"
    /\ \E data \in UpdateData :
          web' = [web EXCEPT !.global_config = DictUpdate(@, data),
                             !.file = FileBeingWritten]
    /\ WebUnchanged

\* json.dump(optimizer.config, f) and the response of POST /config.
WebUpdateEnd ==
    /\ web.file.state = "writing"
    /\ web' = [web EXCEPT !.file = FileOf(web.global_config), !.updates = 1]
    /\ WebUnchanged

NextWeb ==
    \/ \E r \in 1..MaxRequests : WebBegin(r)
    \/ \E r \in 1..MaxRequests : WebSelect(r)
    \/ \E r \in 1..MaxRequests : WebRespond(r)
    \/ WebUpdateBegin
    \/ WebUpdateEnd

SpecWeb == InitWeb /\ [][NextWeb]_vars

----------------------------------------------------------------------------
(* GoogleCalendarIntegration.sync_schedule(ics_calendar, calendar_name), call
   by call of the Google API; optimized_calendar is the calendar passed, and
   every call of the API ends well or in an error the environment chooses *)

\* How a call of the API may end: well, in an HttpError, or in another
\* exception (a transport error).
ApiOutcomes == {"ok", "HttpError", "OSError"}

\* The ids of the events the remote calendar may hold before the sync.
RemoteEvents == {101, 102}

CalendarId == <<"i", "d">>

PublicUrl == <<"u", "r", "l", "=", "i", "d">>

\* The remote calendar and the integration before sync_schedule is called.
SyncStart(existing, listed) ==
    [service |-> FALSE, listed |-> listed, calendar_id |-> None,
     events |-> existing, cleared |-> FALSE, todo |-> <<>>, attempts |-> <<>>,
     calls |-> <<>>, upload |-> "none", result |-> None]

InitSync ==
    /\ config = DefaultConfig
    /\ calendar = {}
    /\ cluster = <<>>
    /\ selected = NoEvent
    /\ events = <<>>
    /\ course_groups = EmptyGroups
    /\ optimized_events = <<>>
    /\ optimized_calendar \in SUBSET {Catalog[1], Catalog[5], Catalog[6]}
    /\ second_calendar = {}
    /\ written = <<>>
    /\ subject = NoEvent
    /\ label = ""
    /\ raised = "none"
    /\ run = NoRun
    /\ passed = NoPassed
    /\ web = NoWeb
    /\ \E existing \in SUBSET RemoteEvents, listed \in BOOLEAN :
          remote = SyncStart(existing, listed)
    /\ pc = "sync_start"

SyncUnchanged ==
    UNCHANGED <<config, calendar, cluster, selected, events, course_groups,
                optimized_events, optimized_calendar, second_calendar, written,
                subject, label, raised, run, passed, web>>

\* An upload loop that gives up at the first event the API rejects.
insert_error_skipped_never(error) == FALSE

\* except HttpError as e: ... continue (lines 242-244)
insert_error_skipped(error) == error = "HttpError"

\* if not self.authenticate(): return None. authenticate catches every
\* exception and returns False.
SyncAuthenticate ==
    /\ pc = "sync_start"
    /\ \E ok \in BOOLEAN :
          /\ remote' = [remote EXCEPT !.service = ok,
                                      !.calls = Append(@, "authenticate")]
          /\ pc' = IF ok THEN "sync_authenticated" ELSE "sync_returned"
    /\ SyncUnchanged

\* calendar_id = self.get_calendar_id(calendar_name); if not calendar_id:
\* return None. The calendar is looked up by name and created when the list
\* does not hold it; an HttpError gives None, another exception reaches the
\* handler of sync_schedule, which returns None.
SyncGetCalendarId ==
    /\ pc = "sync_authenticated"
    /\ \E list \in ApiOutcomes, insert \in ApiOutcomes :
          LET created == list = "ok" /\ ~remote.listed
              got == list = "ok" /\ (remote.listed \/ insert = "ok")
          IN  /\ remote.listed => insert = "ok"
              /\ list # "ok" => insert = "ok"
              /\ remote' = [remote EXCEPT
                               !.calls = IF created
                                         THEN @ \o <<"calendarList.list", "calendars.insert">>
                                         ELSE Append(@, "calendarList.list"),
                               !.listed = @ \/ got,
                               !.calendar_id = IF got THEN Some(CalendarId) ELSE None]
              /\ pc' = IF got THEN "sync_has_calendar" ELSE "sync_returned"
    /\ SyncUnchanged

\* upload_events up to its loop: self.service is set, clear_calendar lists the
\* events from now on and deletes them one by one; an HttpError of the list or
\* of a delete ends the clearing and clear_calendar returns False, which
\* upload_events does not look at; another exception reaches the handler of
\* upload_events, which returns False, and sync_schedule returns None. stop
\* is the outcome of the call the clearing ended with.
SyncClear ==
    /\ pc = "sync_has_calendar"
    /\ \E list \in ApiOutcomes, deleted \in SUBSET remote.events,
          stop \in ApiOutcomes, order \in Orders(optimized_calendar) :
          LET complete == list = "ok" /\ deleted = remote.events
              tried == Cardinality(deleted) + (IF complete THEN 0 ELSE 1)
              error == IF list # "ok" THEN list ELSE stop
          IN  /\ list # "ok" => deleted = {} /\ stop = "ok"
              /\ list = "ok" => (stop = "ok" <=> complete)
              /\ remote' = [remote EXCEPT
                               !.calls = @ \o <<"events.list">> \o
                                         (IF list = "ok"
                                          THEN [i \in 1..tried |-> "events.delete"]
                                          ELSE <<>>),
                               !.events = @ \ deleted,
                               !.cleared = complete,
                               !.todo = IF error = "OSError" THEN <<>> ELSE order,
                               !.upload = IF error = "OSError" THEN "failed" ELSE "started"]
              /\ pc' = IF error = "OSError" THEN "sync_returned" ELSE "sync_uploading"
    /\ SyncUnchanged

\* One round of the loop of upload_events (lines 229-244).
SyncInsert ==
    /\ pc = "sync_uploading"
    /\ remote.todo # <<>>
    /\ \E outcome \in ApiOutcomes :
          LET ics_event == Head(remote.todo)
              goes_on == outcome = "ok" \/ insert_error_skipped(outcome)
          IN  /\ remote' = [remote EXCEPT
                               !.calls = Append(@, "events.insert"),
                               !.attempts = Append(@, [uid |-> ics_event.uid,
                                                       outcome |-> outcome]),
                               !.events = IF outcome = "ok"
                                          THEN @ \cup {ics_event.uid} ELSE @,
                               !.todo = IF goes_on THEN Tail(@) ELSE @,
                               !.upload = IF goes_on THEN @ ELSE "failed"]
              /\ pc' = IF goes_on THEN "sync_uploading" ELSE "sync_returned"
    /\ SyncUnchanged

\* upload_events returns True; public_url = self.get_calendar_public_url(
\* calendar_id, user_email); return public_url. An HttpError gives None,
\* another exception reaches the handler of sync_schedule, which returns None.
SyncPublish ==
    /\ pc = "sync_uploading"
    /\ remote.todo = <<>>
    /\ \E get \in ApiOutcomes, acl \in ApiOutcomes :
          /\ get # "ok" => acl = "ok"
          /\ remote' = [remote EXCEPT
                           !.upload = "done",
                           !.calls = IF get = "ok"
                                     THEN @ \o <<"calendars.get", "acl.insert">>
                                     ELSE Append(@, "calendars.get"),
                           !.result = IF get = "ok" /\ acl = "ok"
                                      THEN Some(PublicUrl) ELSE None]
    /\ pc' = "sync_returned"
    /\ SyncUnchanged

NextSync ==
    \/ SyncAuthenticate
    \/ SyncGetCalendarId
    \/ SyncClear
    \/ SyncInsert
    \/ SyncPublish

SpecSync == InitSync /\ [][NextSync]_vars

----------------------------------------------------------------------------
(* The same calls on a feed that holds an event without a begin or an event
   that ends before it begins *)

InitMalformed ==
    /\ config \in Configs
    /\ calendar \in {S \in SUBSET (CatalogSet \cup MalformedSet) :
                        Cardinality(S) <= MaxFeed /\ S \cap MalformedSet # {}}
    /\ cluster = <<>>
    /\ selected = NoEvent
    /\ events = <<>>
    /\ course_groups = EmptyGroups
    /\ optimized_events = <<>>
    /\ optimized_calendar = {}
    /\ second_calendar = {}
    /\ written = <<>>
    /\ subject = NoEvent
    /\ label = ""
    /\ raised = "none"
    /\ run = NoRun
    /\ passed = NoPassed
    /\ web = NoWeb
    /\ remote = NoRemote
    /\ pc = "start"

SpecMalformed == InitMalformed /\ [][Next]_vars

----------------------------------------------------------------------------
(* The classifier on its own, over names put together from fragments *)

Fragments ==
    { <<"g", "r", "o", "e", "p", " ", "A">>,
      <<"g", "r", "o", "e", "p", " ", "B">>,
      <<"g", "r", "o", "e", "p">>,
      <<"{", "N", "/", "A", "}">>,
      <<"a", "l", "l", "e">>,
      <<"C">>,
      <<" ">>,
      <<"x">> }

\* The texts made of at most n fragments.
RECURSIVE Texts(_)
Texts(n) ==
    IF n = 0 THEN {<<>>}
    ELSE LET shorter == Texts(n - 1)
         IN  shorter \cup {t \o f : t \in shorter, f \in Fragments}

Descriptions == {None, Some(<<>>)} \cup {Some(f) : f \in Fragments}

InitClassify ==
    /\ config = [timezone |-> "Europe/Brussels"]
    /\ calendar = {}
    /\ cluster = <<>>
    /\ selected = NoEvent
    /\ events = <<>>
    /\ course_groups = EmptyGroups
    /\ optimized_events = <<>>
    /\ optimized_calendar = {}
    /\ second_calendar = {}
    /\ written = <<>>
    /\ subject \in {Ev(1, name, description, 0, 0) :
                        name \in Texts(MaxParts), description \in Descriptions}
    /\ label = ""
    /\ raised = "none"
    /\ run = NoRun
    /\ passed = NoPassed
    /\ web = NoWeb
    /\ remote = NoRemote
    /\ pc = "start"

\* A direct call detect_group(event).
DetectGroup ==
    /\ pc = "start"
    /\ label' = detect_group(subject)
    /\ pc' = "classified"
    /\ UNCHANGED <<config, calendar, cluster, selected, events, course_groups,
                   optimized_events, optimized_calendar, second_calendar, written,
                   subject, raised, run,
                   passed, web, remote>>

NextClassify == DetectGroup

SpecClassify == InitClassify /\ [][NextClassify]_vars

----------------------------------------------------------------------------
(* The classifier constructed from a configuration file that holds a rule
   table: _load_config returns the file's JSON as it is, __init__ then calls
   _load_group_rules(). *)

\* Rule tables a configuration file may hold: the built-in rules in reverse
\* order, one rule of the caller's own, and no rule at all.
SuppliedRuleTables ==
    { LoadGroupRulesFlipped,
      <<[regex |-> <<Lit(<<"x">>)>>, assign |-> "X"]>>,
      <<>> }

RuleConfigs ==
    {[timezone |-> "Europe/Brussels"]} \cup
    {[timezone |-> "Europe/Brussels", group_detection_rules |-> table] :
        table \in SuppliedRuleTables}

InitRules ==
    /\ config \in RuleConfigs
    /\ calendar = {}
    /\ cluster = <<>>
    /\ selected = NoEvent
    /\ events = <<>>
    /\ course_groups = EmptyGroups
    /\ optimized_events = <<>>
    /\ optimized_calendar = {}
    /\ second_calendar = {}
    /\ written = <<>>
    /\ subject \in {Ev(1, name, description, 0, 0) :
                        name \in Texts(MaxParts),
                        description \in {None, Some(<<"{", "N", "/", "A", "}">>)}}
    /\ label = ""
    /\ raised = "none"
    /\ run = NoRun
    /\ passed = NoPassed
    /\ web = NoWeb
    /\ remote = NoRemote
    /\ pc = "start"

NextRules == DetectGroup

SpecRules == InitRules /\ [][NextRules]_vars

----------------------------------------------------------------------------
(* The policy in force, as the engine reads it *)

Preferred == ConfigGet(config, "preferred_group", "A")

Fallback == ConfigGet(config, "fallback_group_behavior", "None")

Mode == ConfigGet(config, "optimization_mode", "earliest_lesson")

SkipWeekends == ConfigGet(config, "skip_weekends", TRUE)

----------------------------------------------------------------------------
(* Properties of the selector *)

\* The selector calls the state records: the direct call, and the call
\* optimize_schedule made for each of its clusters.
Calls ==
    IF pc = "selected" /\ cluster # <<>>
    THEN {[cl |-> cluster, sel |-> selected]}
    ELSE IF pc = "optimized"
         THEN {[cl |-> course_groups.groups[k],
                sel |-> IF k <= Len(optimized_events) THEN optimized_events[k]
                        ELSE NoEvent] :
                  k \in 1..Len(course_groups.keys)}
         ELSE {}

HasLabel(cl, g) == \E i \in 1..Len(cl) : GroupOf(cl[i]) = g

Labelled(cl, g) == {i \in 1..Len(cl) : GroupOf(cl[i]) = g}

\* sel is a member of cl at one of the positions I, and the extreme the mode
\* asks for over the members at positions I.
ChosenAmong(cl, I, sel) ==
    /\ \E k \in I : cl[k] = sel
    /\ Mode = "earliest_lesson" =>
           \A i \in I : ~Before(cl[i].begin, sel.begin)
    /\ Mode = "latest_lesson" =>
           \A i \in I : ~Before(sel.begin, cl[i].begin)
    /\ Mode \notin {"earliest_lesson", "latest_lesson"} =>
           \A i \in I : cl[i] = sel => \A j \in I : i <= j

\* C1: whenever a non-empty cluster has a member of the preferred group, the
\* selected occurrence is of the preferred group, under every optimization
\* mode and every fallback behaviour.
PreferenceSatisfaction ==
    \A c \in Calls :
        HasLabel(c.cl, Preferred) =>
            c.sel \in CatalogSet /\ GroupOf(c.sel) = Preferred

\* A direct call chose a preferred member although a member of another group
\* begins earlier and one begins later than every preferred member.
PreferenceSatisfactionWitness ==
    /\ pc = "selected"
    /\ selected \in CatalogSet
    /\ GroupOf(selected) = Preferred
    /\ \E i \in 1..Len(cluster) :
          GroupOf(cluster[i]) # Preferred /\ Before(cluster[i].begin, selected.begin)
    /\ \E i \in 1..Len(cluster) :
          GroupOf(cluster[i]) # Preferred /\ Before(selected.begin, cluster[i].begin)

\* C2: under use_all_if_missing, for a cluster without a preferred member but
\* with an ALL member, the selected occurrence is labelled ALL and is the
\* tie-break's choice among the ALL members alone.
FallbackCorrectness ==
    \A c \in Calls :
        (/\ Fallback = "use_all_if_missing"
         /\ ~HasLabel(c.cl, Preferred)
         /\ HasLabel(c.cl, "ALL")) =>
            /\ c.sel \in CatalogSet
            /\ GroupOf(c.sel) = "ALL"
            /\ ChosenAmong(c.cl, Labelled(c.cl, "ALL"), c.sel)

\* An ALL member was chosen under the earliest mode although a member of
\* another group begins before it.
FallbackCorrectnessWitness ==
    /\ pc = "selected"
    /\ Fallback = "use_all_if_missing"
    /\ Mode = "earliest_lesson"
    /\ ~HasLabel(cluster, Preferred)
    /\ selected \in CatalogSet
    /\ GroupOf(selected) = "ALL"
    /\ \E i \in 1..Len(cluster) : Before(cluster[i].begin, selected.begin)

\* C3: under use_all_if_missing, a cluster with neither a preferred nor an ALL
\* member has all its members as candidates: the earliest mode selects a
\* member of least begin over the whole cluster (and the other modes their
\* choice over the whole cluster).
FallbackToAllMembers ==
    \A c \in Calls :
        (/\ Fallback = "use_all_if_missing"
         /\ ~HasLabel(c.cl, Preferred)
         /\ ~HasLabel(c.cl, "ALL")) =>
            ChosenAmong(c.cl, 1..Len(c.cl), c.sel)

\* The earliest member of such a cluster was chosen, and it is not the first.
FallbackToAllMembersWitness ==
    /\ pc = "selected"
    /\ Fallback = "use_all_if_missing"
    /\ Mode = "earliest_lesson"
    /\ Len(cluster) >= 2
    /\ ~HasLabel(cluster, Preferred)
    /\ ~HasLabel(cluster, "ALL")
    /\ selected # cluster[1]
    /\ \A i \in 1..Len(cluster) : ~Before(cluster[i].begin, selected.begin)

\* C4: under use_any_if_missing, a cluster without a preferred member has all
\* its members as candidates even when some are labelled ALL: the tie-break
\* runs over the whole cluster.
FallbackAnyIgnoresAll ==
    \A c \in Calls :
        (/\ Fallback = "use_any_if_missing"
         /\ ~HasLabel(c.cl, Preferred)) =>
            ChosenAmong(c.cl, 1..Len(c.cl), c.sel)

\* A member that is not labelled ALL was chosen from a cluster holding an
\* ALL member.
FallbackAnyIgnoresAllWitness ==
    /\ pc = "selected"
    /\ Fallback = "use_any_if_missing"
    /\ ~HasLabel(cluster, Preferred)
    /\ HasLabel(cluster, "ALL")
    /\ selected \in CatalogSet
    /\ GroupOf(selected) # "ALL"

\* C5: the tie-break returns, of the candidate set, a candidate of least begin
\* (earliest), of greatest begin (latest) or the first candidate (any other
\* mode), and of several candidates sharing the extreme begin the one that
\* comes first in candidate-set order.
TieBreak ==
    \A c \in Calls :
        LET cand == CandidateSet(c.cl, config)
            I == 1..Len(cand)
        IN  \E k \in I :
               /\ cand[k] = c.sel
               /\ Mode = "earliest_lesson" =>
                      /\ \A i \in I : ~Before(cand[i].begin, c.sel.begin)
                      /\ \A i \in I : cand[i].begin = c.sel.begin => k <= i
               /\ Mode = "latest_lesson" =>
                      /\ \A i \in I : ~Before(c.sel.begin, cand[i].begin)
                      /\ \A i \in I : cand[i].begin = c.sel.begin => k <= i
               /\ Mode \notin {"earliest_lesson", "latest_lesson"} => k = 1

\* Under the latest mode the first of two candidates of the same, greatest
\* begin was chosen.
TieBreakWitness ==
    /\ pc = "selected"
    /\ Mode = "latest_lesson"
    /\ LET cand == CandidateSet(cluster, config)
       IN  \E i, j \in 1..Len(cand) :
              /\ i < j
              /\ cand[i] = selected
              /\ cand[j].begin = selected.begin

----------------------------------------------------------------------------
(* Properties of the reduction pipeline *)

IsWeekend(e) == Weekday(e.begin) \in {5, 6}

\* The events of the input calendar the weekend filter is to keep, and the
\* course codes among them.
KeptByFilter == {e \in calendar : ~(SkipWeekends = TRUE /\ IsWeekend(e))}

KeysPresent == {CodeOf(e) : e \in KeptByFilter}

\* C6: the output holds exactly one occurrence for each course code present
\* after weekend filtering and none for any other code; its size is the number
\* of those codes and at most the size of the input.
Cardinality_OnePerCourse ==
    pc = "optimized" =>
        /\ \A k \in KeysPresent :
              Cardinality({e \in optimized_calendar : CodeOf(e) = k}) = 1
        /\ optimized_calendar \subseteq KeptByFilter
        /\ Cardinality(optimized_calendar) = Cardinality(KeysPresent)
        /\ Len(optimized_events) = Cardinality(KeysPresent)
        /\ Cardinality(optimized_calendar) <= Cardinality(calendar)

\* A calendar of two courses, one of them with alternatives, was reduced.
Cardinality_Witness ==
    /\ pc = "optimized"
    /\ Cardinality(KeysPresent) >= 2
    /\ Cardinality(KeptByFilter) > Cardinality(KeysPresent)
    /\ Cardinality(optimized_calendar) = Cardinality(KeysPresent)

\* C7: optimize_schedule applied to its own output, under the same policy,
\* returns the same occurrences.
Idempotence ==
    pc = "reoptimized" => second_calendar = optimized_calendar

\* The first pass dropped occurrences and kept two or more; the second pass
\* returned them.
IdempotenceWitness ==
    /\ pc = "reoptimized"
    /\ Cardinality(optimized_calendar) >= 2
    /\ Cardinality(optimized_calendar) < Cardinality(calendar)
    /\ second_calendar = optimized_calendar

\* C8: with skip_weekends true no Saturday or Sunday occurrence is in the
\* filtered list, in a cluster or in the output; with skip_weekends false the
\* filter drops nothing.
WeekendFilter ==
    pc = "optimized" =>
        /\ SkipWeekends = TRUE =>
              /\ \A i \in 1..Len(events) : ~IsWeekend(events[i])
              /\ \A k \in 1..Len(course_groups.groups) :
                    \A i \in 1..Len(course_groups.groups[k]) :
                       ~IsWeekend(course_groups.groups[k][i])
              /\ \A i \in 1..Len(optimized_events) : ~IsWeekend(optimized_events[i])
              /\ \A e \in optimized_calendar : ~IsWeekend(e)
        /\ SkipWeekends = FALSE =>
              /\ Len(events) = Cardinality(calendar)
              /\ {events[i] : i \in 1..Len(events)} = calendar

\* A weekend occurrence, the only one of its course in the preferred group,
\* was dropped and another occurrence of the course selected.
WeekendFilterWitness ==
    /\ pc = "optimized"
    /\ SkipWeekends = TRUE
    /\ \E e \in calendar :
          /\ IsWeekend(e)
          /\ GroupOf(e) = Preferred
          /\ \A e2 \in calendar \ {e} :
                CodeOf(e2) = CodeOf(e) => GroupOf(e2) # Preferred
          /\ \E e2 \in optimized_calendar : CodeOf(e2) = CodeOf(e)
          /\ e \notin optimized_calendar

\* The position at which a course code is first seen in a list of events.
FirstIndex(seq, code) ==
    CHOOSE i \in 1..Len(seq) :
        /\ CodeOf(seq[i]) = code
        /\ \A j \in 1..(i - 1) : CodeOf(seq[j]) # code

\* The position in the source feed (the uid) at which a course code is first
\* seen among the occurrences the filter keeps.
FirstInFeed(code) ==
    CHOOSE u \in {e.uid : e \in KeptByFilter} :
        /\ \E e \in KeptByFilter : e.uid = u /\ CodeOf(e) = code
        /\ \A e \in KeptByFilter : CodeOf(e) = code => u <= e.uid

\* C9, as claimed: the returned schedule lists the selections in the
\* first-seen order of their course codes in the filtered source feed.
OutputOrderFollowsFeed ==
    pc = "written" =>
        \A i, j \in 1..Len(written) :
            i < j => FirstInFeed(CodeOf(written[i])) < FirstInFeed(CodeOf(written[j]))

\* C9, amended: the list of selections optimize_schedule assembles holds, at
\* position i, the selection for the i-th course code in first-seen order of
\* the filtered list, which is in the iteration order of the calendar's event
\* set.
OutputOrderFollowsIteration ==
    pc = "optimized" =>
        /\ {CodeOf(optimized_events[i]) : i \in 1..Len(optimized_events)}
              = {CodeOf(events[i]) : i \in 1..Len(events)}
        /\ \A i, j \in 1..Len(optimized_events) :
              i < j => FirstIndex(events, CodeOf(optimized_events[i]))
                         < FirstIndex(events, CodeOf(optimized_events[j]))
        /\ \A i \in 1..Len(optimized_events) :
              LET SameCourse(e) == CodeOf(e) = CodeOf(optimized_events[i])
              IN  optimized_events[i]
                     = select_optimal_event(SelectSeq(events, SameCourse), config)

\* Two or more selections were assembled in an order that is not the
\* first-seen order of the source feed.
OutputOrderWitness ==
    /\ pc = "optimized"
    /\ \E i, j \in 1..Len(optimized_events) :
          /\ i < j
          /\ FirstInFeed(CodeOf(optimized_events[i]))
                > FirstInFeed(CodeOf(optimized_events[j]))

----------------------------------------------------------------------------
(* Properties of the classifier *)

\* The text s stands in text, character for character.
Contains(text, s) ==
    \E i \in 1..(Len(text) - Len(s) + 1) : SubSeq(text, i, i + Len(s) - 1) = s

RuleOrder == <<"A", "B", "C", "D", "E", "ALL", "NA">>

\* The rule assigning the label g matches the subject's text.
RuleMatches(g) ==
    LET rule == CHOOSE r \in {load_group_rules[k] : k \in 1..Len(load_group_rules)} :
                    r.assign = g
    IN  re_search(rule.regex, TextToAnalyze(subject))

groep_A == <<"g", "r", "o", "e", "p", " ", "A">>

groep_B == <<"g", "r", "o", "e", "p", " ", "B">>

not_applicable == <<"{", "N", "/", "A", "}">>

\* C10: detect_group returns the label of the first rule, in the order A, B,
\* C, D, E, ALL, NA, that matches, and UNKNOWN if none does: a text with
\* "groep A" and "{N/A}" is labelled A, and so is a text with "groep B" and
\* "groep A", wherever they stand.
FirstMatchWins ==
    pc = "classified" =>
        /\ IF \E k \in 1..Len(RuleOrder) : RuleMatches(RuleOrder[k])
           THEN \E k \in 1..Len(RuleOrder) :
                   /\ RuleMatches(RuleOrder[k])
                   /\ \A j \in 1..(k - 1) : ~RuleMatches(RuleOrder[j])
                   /\ label = RuleOrder[k]
           ELSE label = "UNKNOWN"
        /\ (/\ Contains(TextToAnalyze(subject), groep_A)
            /\ Contains(TextToAnalyze(subject), not_applicable)) => label = "A"
        /\ (/\ Contains(TextToAnalyze(subject), groep_B)
            /\ Contains(TextToAnalyze(subject), groep_A)) => label = "A"

\* A text with "groep B", then "{N/A}", then "groep A" was labelled A.
FirstMatchWinsWitness ==
    /\ pc = "classified"
    /\ Contains(TextToAnalyze(subject), groep_B \o not_applicable \o groep_A)
    /\ label = "A"

\* The letter X stands immediately before "groep" or "Group" in the subject's
\* text.
ReversePhrase(X) ==
    \/ Contains(TextToAnalyze(subject), <<X>> \o groep)
    \/ Contains(TextToAnalyze(subject), <<X>> \o Group)

\* C11: the classifier the selector uses labels the reverse-order phrasing, a
\* letter A-E immediately followed by "group"/"groep", with that letter, as
\* the group extraction of the calendar integration does (no "groep X"
\* phrasing standing in the text).
ReversePhrasingLabelled ==
    pc = "classified" =>
        \A X \in {"A", "B", "C", "D", "E"} :
            (/\ ReversePhrase(X)
             /\ extract_group_from_event(subject) = Some(<<X>>)
             /\ \A Y \in {"A", "B", "C", "D", "E"} : ~RuleMatches(Y)) =>
                label = X

\* The text holds "groep" or "group" in any case, whitespace or none, and
\* then the letter X in any case.
ForwardPhrase(text, X) ==
    \E word \in {groep, Group} : \E i \in 1..Len(text) :
        /\ ForwardAt(word, text, i)
        /\ Lower(text[ForwardLetterAt(word, text, i)]) = Lower(X)

LowerText(text) == [i \in 1..Len(text) |-> Lower(text[i])]

\* The label the built-in rules give, read off the text.
BuiltInLabel(text) ==
    IF ForwardPhrase(text, "A") THEN "A"
    ELSE IF ForwardPhrase(text, "B") THEN "B"
    ELSE IF ForwardPhrase(text, "C") THEN "C"
    ELSE IF ForwardPhrase(text, "D") THEN "D"
    ELSE IF ForwardPhrase(text, "E") THEN "E"
    ELSE IF Contains(LowerText(text), <<"a", "l", "l">>) THEN "ALL"
    ELSE IF Contains(LowerText(text), <<"{", "n", "/", "a", "}">>) THEN "NA"
    ELSE "UNKNOWN"

SuppliesRules == "group_detection_rules" \in DOMAIN config

\* The label the rule table of the configuration gives, in its array order.
SuppliedLabel ==
    IF SuppliesRules
    THEN DetectFrom(config.group_detection_rules, 1, TextToAnalyze(subject))
    ELSE "UNKNOWN"

\* C12 as stated: when the configuration supplies a group-rule table, the
\* classifier uses exactly the supplied rules in their array order, and none
\* of the default rules.
SuppliedRulesUsed ==
    (pc = "classified" /\ SuppliesRules) => label = SuppliedLabel

\* C12, amended: the classifier uses the built-in rules in their fixed order
\* A, B, C, D, E, ALL, NA whether or not the configuration holds a rule table;
\* a supplied table has no effect on the label.
ConfigRulesIgnored ==
    pc = "classified" => label = BuiltInLabel(TextToAnalyze(subject))

\* A configuration supplied a table that gives another label than the one
\* the classifier returned.
ConfigRulesIgnoredWitness ==
    /\ pc = "classified"
    /\ SuppliesRules
    /\ config.group_detection_rules = LoadGroupRulesFlipped
    /\ SuppliedLabel = "NA"
    /\ label = "A"

----------------------------------------------------------------------------
(* Properties of the course grouper *)

\* The number of decimal digits a title begins with.
LeadingDigits(name) ==
    CHOOSE n \in 0..Len(name) :
        /\ \A i \in 1..n : IsDigit(name[i])
        /\ n < Len(name) => ~IsDigit(name[n + 1])

\* The key a title is to be filed under: its leading digit run when
\* whitespace or none and then a dash follow it, and UNKNOWN otherwise.
ExpectedKey(name) ==
    LET n == LeadingDigits(name)
        dash == SkipSpaces(name, n + 1)
    IN  IF n >= 1 /\ dash <= Len(name) /\ name[dash] = "-"
        THEN SubSeq(name, 1, n)
        ELSE UNKNOWN_CODE

\* The position of an event in the list given to group_events_by_course.
InputIndex(e) == CHOOSE i \in 1..Len(events) : events[i] = e

\* The places <<k, j>> of the clusters.
Places ==
    {<<k, j>> \in (1..Len(course_groups.groups)) \X (1..Len(events)) :
        j <= Len(course_groups.groups[k])}

\* C13: group_events_by_course partitions the list it is given: every
\* occurrence of the list is at exactly one place of exactly one cluster, the
\* cluster's key being the leading digit run of its title, as text, when
\* whitespace or none and a dash follow it and UNKNOWN otherwise; the keys are
\* distinct and in the order in which the list first shows them, and the
\* members of a cluster are in the order of the list.
GrouperPartitions ==
    pc = "optimized" =>
        /\ Len(course_groups.groups) = Len(course_groups.keys)
        /\ \A i \in 1..Len(events) :
              Cardinality({p \in Places :
                              course_groups.groups[p[1]][p[2]] = events[i]}) = 1
        /\ \A p \in Places :
              /\ \E i \in 1..Len(events) :
                    events[i] = course_groups.groups[p[1]][p[2]]
              /\ course_groups.keys[p[1]] =
                    ExpectedKey(course_groups.groups[p[1]][p[2]].name)
        /\ \A k \in 1..Len(course_groups.keys) :
              /\ course_groups.groups[k] # <<>>
              /\ \A k2 \in 1..Len(course_groups.keys) :
                    k < k2 =>
                       /\ course_groups.keys[k] # course_groups.keys[k2]
                       /\ course_groups.groups[k2] # <<>>
                       /\ InputIndex(course_groups.groups[k][1]) <
                             InputIndex(course_groups.groups[k2][1])
              /\ \A j, j2 \in 1..Len(course_groups.groups[k]) :
                    j < j2 =>
                       /\ course_groups.groups[k][j] \in
                             {events[i] : i \in 1..Len(events)}
                       /\ course_groups.groups[k][j2] \in
                             {events[i] : i \in 1..Len(events)}
                       /\ InputIndex(course_groups.groups[k][j]) <
                             InputIndex(course_groups.groups[k][j2])

\* The titles "54 - ..." and "054 - ..." were filed under the two keys "54"
\* and "054", the cluster "54" holding two members in the order of the list,
\* which is not the order of their begins.
GrouperPartitionsWitness ==
    /\ pc = "optimized"
    /\ \E k, k2 \in 1..Len(course_groups.keys) :
          /\ course_groups.keys[k] = <<"5", "4">>
          /\ course_groups.keys[k2] = <<"0", "5", "4">>
          /\ Len(course_groups.groups[k]) = 2
          /\ Before(course_groups.groups[k][2].begin,
                    course_groups.groups[k][1].begin)

\* The titles of the listed events that have no leading numeric code.
Unparseable(S) == {e \in S : ExpectedKey(e.name) = UNKNOWN_CODE}

\* C14: all occurrences whose title has no leading numeric code are members
\* of the one cluster keyed UNKNOWN, and the output of optimize_schedule
\* holds exactly one of them when there is any, however many distinct such
\* titles the input holds.
UnknownMerged ==
    pc = "optimized" =>
        LET listed == {events[i] : i \in 1..Len(events)}
            unknown == {k \in 1..Len(course_groups.keys) :
                          course_groups.keys[k] = UNKNOWN_CODE}
        IN  /\ Cardinality(unknown) <= 1
            /\ Unparseable(listed) # {} <=> unknown # {}
            /\ \A k \in unknown :
                  {course_groups.groups[k][j] :
                      j \in 1..Len(course_groups.groups[k])} = Unparseable(listed)
            /\ Cardinality(Unparseable(optimized_calendar)) <= 1
            /\ Unparseable(listed) # {} =>
                  Cardinality(Unparseable(optimized_calendar)) = 1

\* Two occurrences with different titles without a code were listed and one
\* of them is in the output.
UnknownMergedWitness ==
    /\ pc = "optimized"
    /\ \E i, j \in 1..Len(events) :
          /\ events[i].name # events[j].name
          /\ {events[i], events[j]} \subseteq Unparseable(calendar)
    /\ Cardinality(Unparseable(optimized_calendar)) = 1

----------------------------------------------------------------------------
(* Errors of the selector *)

\* A direct call of the selector has ended, by a return or by an exception.
SelectorCalled == pc \in {"selected", "failed"} /\ events = <<>>

\* C15 as stated: the selector returns a member of every non-empty list and,
\* given an empty list, raises EmptyClusterError and returns no value.
SelectorRaisesOnEmpty ==
    SelectorCalled =>
        IF cluster = <<>>
        THEN pc = "failed" /\ raised = "EmptyClusterError"
        ELSE pc = "selected" /\ \E i \in 1..Len(cluster) : cluster[i] = selected

\* C15, amended: the selector returns a member of every non-empty list of
\* well-formed occurrences and, given an empty list, returns None without
\* raising anything.
SelectorReturnsNoneOnEmpty ==
    SelectorCalled =>
        /\ pc = "selected"
        /\ raised = "none"
        /\ IF cluster = <<>> THEN selected = NoEvent
           ELSE \E i \in 1..Len(cluster) : cluster[i] = selected

\* The selector was called with the empty list and returned None.
SelectorReturnsNoneOnEmptyWitness ==
    /\ pc = "selected"
    /\ calendar = {}
    /\ cluster = <<>>
    /\ selected = NoEvent
    /\ raised = "none"

----------------------------------------------------------------------------
(* Errors of the reduction *)

\* An occurrence that lacks its begin or ends before it begins.
Malformed(e) == ~HasBegin(e) \/ Before(e.end, e.begin)

\* A call of optimize_schedule has ended, by a return or by an exception.
ReduceCalled ==
    \/ pc \in {"optimized", "reoptimized", "written"}
    \/ pc = "failed" /\ cluster = <<>>

\* No occurrence without a begin or with start > end is in the output.
MalformedNeverSelected ==
    ReduceCalled => \A e \in optimized_calendar : ~Malformed(e)

\* C16: an occurrence without a begin or with start > end makes the whole
\* call of optimize_schedule fail with a MalformedOccurrenceError; no such
\* occurrence is skipped silently or selected into the output.
MalformedAborts ==
    /\ (ReduceCalled /\ \E e \in calendar : Malformed(e)) =>
          pc = "failed" /\ raised = "MalformedOccurrenceError"
    /\ MalformedNeverSelected

\* C17: optimize_schedule raises nothing for a calendar of well-formed
\* occurrences: an empty calendar gives an empty output, and an occurrence
\* whose title has no course code or whose text matches no group rule is
\* filed and labelled UNKNOWN, its course and every other course of the
\* calendar getting their selection.
NeverRaises ==
    /\ pc # "failed"
    /\ raised = "none"
    /\ pc = "optimized" =>
          /\ calendar = {} => optimized_calendar = {} /\ optimized_events = <<>>
          /\ \A e \in KeptByFilter :
                /\ e \in {events[i] : i \in 1..Len(events)}
                /\ \E k \in 1..Len(course_groups.keys) :
                      /\ course_groups.keys[k] = ExpectedKey(e.name)
                      /\ k <= Len(optimized_events)
                      /\ optimized_events[k] \in optimized_calendar
                      /\ ExpectedKey(optimized_events[k].name) = ExpectedKey(e.name)

\* A calendar holding an occurrence with neither a course code nor a group
\* the rules know, and an occurrence of a numbered course, was reduced to the
\* two of them.
NeverRaisesWitness ==
    /\ pc = "optimized"
    /\ raised = "none"
    /\ \E e \in optimized_calendar :
          /\ e \in CatalogSet
          /\ ExpectedKey(e.name) = UNKNOWN_CODE
          /\ GroupOf(e) = "UNKNOWN"
    /\ \E e \in optimized_calendar : ExpectedKey(e.name) # UNKNOWN_CODE

----------------------------------------------------------------------------
(* Defaults of the policy *)

\* C19: when the configuration holds no fallback behaviour, selection is as
\* under use_all_if_missing: a cluster without a member of the preferred
\* group but with a member labelled ALL yields a selection labelled ALL.
MissingFallbackIsUseAll ==
    \A c \in Calls :
        (/\ "fallback_group_behavior" \notin DOMAIN config
         /\ ~HasLabel(c.cl, Preferred)
         /\ HasLabel(c.cl, "ALL")) =>
            c.sel \in CatalogSet /\ GroupOf(c.sel) = "ALL"

----------------------------------------------------------------------------
(* The Google Calendar step of run_optimization *)

\* C20: when run_optimization is called with sync_to_google true, the reduced
\* calendar is handed to GoogleCalendarIntegration.sync_schedule after the
\* reduced file is written, and the URL that call returns is the
\* google_calendar_url of the result.
SyncHandsCalendar ==
    (pc = "run_returned" /\ run.sync_to_google) =>
        /\ run.output_file # None
        /\ run.sync_calls = <<optimized_calendar>>
        /\ run.result.some
        /\ run.result.val.google_calendar_url = run.google_url

----------------------------------------------------------------------------
(* Inputs of the selector and of the reduction *)

\* The objects a list holds.
Members(seq) == {seq[i] : i \in 1..Len(seq)}

\* C21: select_optimal_event and optimize_schedule leave their inputs as they
\* were passed: the cluster list, the event set of the input calendar and the
\* fields of every occurrence are the same after the call; what the selector
\* returns for a non-empty cluster is one of the cluster's own objects, and so
\* is every occurrence of the clusters and of the returned calendar.
InputsNotMutated ==
    /\ pc = "selected" =>
          /\ cluster = passed.cluster
          /\ Members(cluster) = calendar
          /\ cluster # <<>> => selected \in Members(cluster)
    /\ pc = "optimized" =>
          /\ calendar = passed.calendar
          /\ Members(events) \subseteq calendar
          /\ \A k \in 1..Len(course_groups.groups) :
                Members(course_groups.groups[k]) \subseteq calendar
          /\ Members(optimized_events) \subseteq calendar
          /\ optimized_calendar \subseteq calendar

\* A calendar of three occurrences was reduced to two of its own objects and
\* still holds the three.
InputsNotMutatedWitness ==
    /\ pc = "optimized"
    /\ Cardinality(calendar) = 3
    /\ calendar = passed.calendar
    /\ Cardinality(optimized_calendar) = 2
    /\ \A e \in optimized_calendar : \E x \in calendar : x.id = e.id /\ x = e

----------------------------------------------------------------------------
(* Requests of the webhook API and updates of its configuration *)

Requests == 1..MaxRequests

\* The request has called optimize_schedule.
Reducing(r) == web.requests[r].step \in {"reducing", "responded"}

\* C22: under every interleaving of the reductions of concurrent requests and
\* of configuration updates, a reduction reads one and the same policy at its
\* weekend filter and at every cluster it processes, and returns what
\* optimize_schedule returns for its feed under that policy alone.
NoInterference ==
    \A r \in Requests :
        Reducing(r) =>
            /\ \A i, j \in 1..Len(web.requests[r].seen) :
                  web.requests[r].seen[i] = web.requests[r].seen[j]
            /\ web.requests[r].step = "responded" =>
                  /\ Len(web.requests[r].seen) >= 1
                  /\ \E alone \in Configs :
                        /\ Policy(alone) = web.requests[r].seen[1]
                        /\ web.requests[r].result =
                              optimize_schedule(web.feed, alone).calendar

\* Two requests with different policies are both between two clusters of
\* their reductions while an update has changed the global configuration and
\* is writing config.json.
NoInterferenceWitness ==
    /\ web.file.state = "writing"
    /\ web.global_config # DefaultConfig
    /\ \E r1, r2 \in Requests :
          /\ web.requests[r1].step = "reducing"
          /\ web.requests[r2].step = "reducing"
          /\ Len(web.requests[r1].course_groups.keys) = 2
          /\ Len(web.requests[r1].seen) = 2
          /\ Len(web.requests[r2].seen) = 2
          /\ web.requests[r1].seen[1] # web.requests[r2].seen[1]
          /\ web.requests[r1].seen[1] # Policy(web.global_config)
          /\ web.requests[r2].seen[1] # Policy(web.global_config)

\* The policy a request's body asks for.
ExpectedPolicy(body) ==
    [preferred_group |->
        IF "preferred_group" \in DOMAIN body THEN body.preferred_group ELSE "A",
     fallback_group_behavior |-> "use_all_if_missing",
     optimization_mode |->
        IF "optimization_mode" \in DOMAIN body THEN body.optimization_mode
        ELSE "earliest_lesson",
     skip_weekends |-> TRUE]

\* C23: the policy of a POST /optimize or POST /google-calendar/sync request
\* is that of its body, with fallback use_all_if_missing and skip_weekends
\* true, whatever POST /config updates were made before it: its reduction
\* reads that policy throughout and returns what optimize_schedule returns
\* for the feed under it.
PolicyFromBodyOnly ==
    \A r \in Requests :
        Reducing(r) =>
            /\ Policy(web.requests[r].config) = ExpectedPolicy(web.requests[r].body)
            /\ \A i \in 1..Len(web.requests[r].seen) :
                  web.requests[r].seen[i] = ExpectedPolicy(web.requests[r].body)
            /\ web.requests[r].step = "responded" =>
                  \A alone \in Configs :
                     Policy(alone) = ExpectedPolicy(web.requests[r].body) =>
                        web.requests[r].result =
                           optimize_schedule(web.feed, alone).calendar

\* A request made after an update that changed every key of the policy, and
\* written to config.json, answered with the reduction its body asks for,
\* which is not the reduction under the updated configuration.
PolicyFromBodyOnlyWitness ==
    \E r \in Requests :
        /\ web.requests[r].step = "responded"
        /\ web.requests[r].updated
        /\ web.file.state = "valid"
        /\ Policy(web.file.content) # ExpectedPolicy(web.requests[r].body)
        /\ web.file.content = web.global_config
        /\ web.requests[r].result # optimize_schedule(web.feed, web.global_config).calendar
        /\ \E alone \in Configs :
              /\ Policy(alone) = ExpectedPolicy(web.requests[r].body)
              /\ web.requests[r].result = optimize_schedule(web.feed, alone).calendar

----------------------------------------------------------------------------
(* Failures of the Google Calendar step *)

\* C24: a failure of the Google Calendar step does not fail run_optimization:
\* once the reduced file is written, the call does not end in an exception,
\* and it returns a result that names the written file and whose
\* google_calendar_url is None when the step raised or returned no URL.
SyncFailureSwallowed ==
    /\ pc = "failed" => run.output_file = None
    /\ pc \in {"run_generated", "run_synced", "run_returned"} =>
          /\ raised = "none"
          /\ run.output_file = Some(OutputFile)
    /\ pc = "run_returned" =>
          /\ run.result.some
          /\ run.result.val.output_file = Some(OutputFile)
          /\ (run.sync_error # "none" \/ run.google_url = None) =>
                run.result.val.google_calendar_url = None

\* The Google Calendar step raised, and run_optimization returned the written
\* file and no URL.
SyncFailureSwallowedWitness ==
    /\ pc = "run_returned"
    /\ run.sync_to_google
    /\ run.sync_error = "NameError"
    /\ run.result.some
    /\ run.result.val.output_file = Some(OutputFile)
    /\ run.result.val.google_calendar_url = None
    /\ Len(written) >= 2

----------------------------------------------------------------------------
(* The order of the steps of sync_schedule *)

\* The step of sync_schedule a call of the API belongs to; within the upload
\* the calls of the clearing come before the inserts.
StepOf(call) ==
    CASE call = "authenticate" -> 1
      [] call \in {"calendarList.list", "calendars.insert"} -> 2
      [] call \in {"events.list", "events.delete"} -> 3
      [] call = "events.insert" -> 4
      [] call \in {"calendars.get", "acl.insert"} -> 5
      [] OTHER -> 0

CallsFrom(step) == {i \in DOMAIN remote.calls : StepOf(remote.calls[i]) >= step}

====
